---- MODULE Spec2Model ----
(***************************************************************************)
(* Model of the movie catalogue's data layer (django/core/models.py): the  *)
(* tables Movie, Person, Role, Vote, MovieImage and the user table they    *)
(* reference, the constraints the schema declares on them, the on_delete   *)
(* policies, the managers' queries (MovieManager, VoteManager) and         *)
(* Model.save() / Model.delete() as the ORM runs them against PostgreSQL   *)
(* (config/dev_settings.py).                                               *)
(***************************************************************************)
EXTENDS Integers, Sequences, FiniteSets, TLC

VARIABLES
    db,      \* the persisted tables
    seq,     \* next primary key of Role, Vote and MovieImage (a key is
             \* never used twice; the model advances it on a stored row)
    objs,    \* the Vote instance each caller holds in memory
    last,    \* the last operation and its outcome
    result   \* the rows the last query returned

vars == <<db, seq, objs, last, result>>

----------------------------------------------------------------------------
(* Bounds of the model *)

MaxUsers == 3
MaxPersons == 1
MaxMovies == 2
MaxRows == 3
MaxLimit == 3

RoleNames == {"Cobb", "Ariadne"}
Callers == {"c1", "c2"}
Years == {2005, 2010}
\* titles are strings: sequences of character codes
Titles == {<<1>>, <<1, 2>>, <<2>>}

----------------------------------------------------------------------------
(* Values *)

NULL == 0
UP == 1
DOWN == -1
VoteValues == {UP, DOWN}

UserIds == 1..MaxUsers
PersonIds == 1..MaxPersons
MovieIds == 1..MaxMovies

NoObj == [id |-> NULL, value |-> NULL, user |-> NULL, movie |-> NULL]

Ids(rows) == {r.id : r \in rows}

Movie(i, t, y, p) == [id |-> i, title |-> t, year |-> y, director |-> p]

EmptyDb ==
    [users |-> {}, persons |-> {}, movies |-> {}, roles |-> {},
     votes |-> {}, images |-> {}]

----------------------------------------------------------------------------
(* Constraints the schema declares; PostgreSQL enforces them *)

PrimaryKeys(rows) ==
    \A a, b \in rows : a.id = b.id => a = b

MovieDirectorFK(d) ==
    \A m \in d.movies : m.director = NULL \/ m.director \in d.persons

RoleFK(d) ==
    \A r \in d.roles : r.movie \in Ids(d.movies) /\ r.person \in d.persons

\* unique_together = ('movie', 'person')
RoleUniqueMoviePerson(d) ==
    \A a, b \in d.roles : (a.movie = b.movie /\ a.person = b.person) => a = b

RoleUniqueTogether(d) ==
    \A a, b \in d.roles :
        (a.movie = b.movie /\ a.person = b.person /\ a.name = b.name) => a = b

VoteNotNull(d) ==
    \A v \in d.votes : v.value # NULL

VoteFK(d) ==
    \A v \in d.votes : v.user \in d.users /\ v.movie \in Ids(d.movies)

\* Vote without unique_together
NoVoteUniqueTogether(d) == TRUE

VoteUniqueTogether(d) ==
    \A a, b \in d.votes : (a.user = b.user /\ a.movie = b.movie) => a = b

MovieImageFK(d) ==
    \A i \in d.images : i.movie \in Ids(d.movies) /\ i.user \in d.users

\* the IntegrityError a write with outcome d ends in, "" when it has none:
\* unique and not-null constraints are checked by the statement, the
\* (deferred) foreign keys when the transaction commits
Violation(d) ==
    IF ~(/\ PrimaryKeys(d.movies) /\ PrimaryKeys(d.roles)
         /\ PrimaryKeys(d.votes) /\ PrimaryKeys(d.images)
         /\ RoleUniqueTogether(d) /\ VoteUniqueTogether(d)) THEN "unique"
    ELSE IF ~VoteNotNull(d) THEN "not_null"
    ELSE IF ~(/\ MovieDirectorFK(d) /\ RoleFK(d) /\ VoteFK(d)
              /\ MovieImageFK(d)) THEN "foreign_key"
    ELSE ""

\* a write runs in a transaction: it is committed when every constraint
\* holds of its outcome and rolled back otherwise
Commit(old, new) == IF Violation(new) = "" THEN new ELSE old

----------------------------------------------------------------------------
(* Model.delete(): the rows the ORM's collector removes or updates *)

\* Role.movie with on_delete=CASCADE
DeleteMovieRowsCascadeRoles(d, m) ==
    [d EXCEPT !.votes = {v \in d.votes : v.movie # m},
              !.images = {i \in d.images : i.movie # m},
              !.roles = {r \in d.roles : r.movie # m},
              !.movies = {x \in d.movies : x.id # m}]

\* Vote.movie and MovieImage.movie cascade, Role.movie does nothing
DeleteMovieRows(d, m) ==
    [d EXCEPT !.votes = {v \in d.votes : v.movie # m},
              !.images = {i \in d.images : i.movie # m},
              !.movies = {x \in d.movies : x.id # m}]

\* Movie.director with on_delete=CASCADE
DeletePersonRowsCascade(d, p) ==
    [d EXCEPT !.movies = {x \in d.movies : x.director # p},
              !.persons = d.persons \ {p}]

\* Movie.director is set to null, Role.person does nothing
DeletePersonRows(d, p) ==
    [d EXCEPT !.movies = {IF x.director = p THEN [x EXCEPT !.director = NULL]
                          ELSE x : x \in d.movies},
              !.persons = d.persons \ {p}]

\* Vote.user and MovieImage.user cascade
DeleteUserRows(d, u) ==
    [d EXCEPT !.votes = {v \in d.votes : v.user # u},
              !.images = {i \in d.images : i.user # u},
              !.users = d.users \ {u}]

DeleteRoleRows(d, r) ==
    [d EXCEPT !.roles = {x \in d.roles : x.id # r}]

----------------------------------------------------------------------------
(* Model.save() *)

\* a save() that always INSERTs
SaveVoteRowsInsert(d, o, newId) ==
    [d EXCEPT !.votes = @ \cup {[o EXCEPT !.id = newId]}]

\* save() of a Vote instance o: INSERT when it has no primary key, else
\* UPDATE of the row with that key, and INSERT when there is no such row
SaveVoteRows(d, o, newId) ==
    IF o.id = NULL
    THEN [d EXCEPT !.votes = @ \cup {[o EXCEPT !.id = newId]}]
    ELSE [d EXCEPT !.votes = {v \in @ : v.id # o.id} \cup {o}]

Op(name, err, arg) == [op |-> name, err |-> err, arg |-> arg]

----------------------------------------------------------------------------
(* Writes *)

\* rows of Role, Vote and MovieImage created so far; the model stops
\* creating rows at MaxRows of them
RowsCreated == (seq.role - 1) + (seq.vote - 1) + (seq.image - 1)

CreateRole(m, p, n) ==
    LET row == [id |-> seq.role, movie |-> m, person |-> p, name |-> n]
        new == [db EXCEPT !.roles = @ \cup {row}]
        err == Violation(new)
    IN  /\ err = "" => RowsCreated < MaxRows
        /\ db' = Commit(db, new)
        /\ seq' = IF err = "" THEN [seq EXCEPT !.role = @ + 1] ELSE seq
        /\ last' = Op("create_role", err, NULL)
        /\ UNCHANGED <<objs, result>>

CreateVote(u, m, v) ==
    LET o == [id |-> NULL, value |-> v, user |-> u, movie |-> m]
        new == SaveVoteRows(db, o, seq.vote)
        err == Violation(new)
    IN  /\ err = "" => RowsCreated < MaxRows
        /\ db' = Commit(db, new)
        /\ seq' = IF err = "" THEN [seq EXCEPT !.vote = @ + 1] ELSE seq
        /\ last' = Op("create_vote", err, NULL)
        /\ UNCHANGED <<objs, result>>

CreateImage(m, u) ==
    LET row == [id |-> seq.image, movie |-> m, user |-> u]
        new == [db EXCEPT !.images = @ \cup {row}]
        err == Violation(new)
    IN  /\ err = "" => RowsCreated < MaxRows
        /\ db' = Commit(db, new)
        /\ seq' = IF err = "" THEN [seq EXCEPT !.image = @ + 1] ELSE seq
        /\ last' = Op("create_image", err, NULL)
        /\ UNCHANGED <<objs, result>>

DeleteMovie(m) ==
    LET new == DeleteMovieRows(db, m)
        err == Violation(new)
    IN  /\ m \in Ids(db.movies)
        /\ db' = Commit(db, new)
        /\ last' = Op("delete_movie", err, m)
        /\ UNCHANGED <<seq, objs, result>>

DeletePerson(p) ==
    LET new == DeletePersonRows(db, p)
        err == Violation(new)
    IN  /\ p \in db.persons
        /\ db' = Commit(db, new)
        /\ last' = Op("delete_person", err, p)
        /\ UNCHANGED <<seq, objs, result>>

DeleteUser(u) ==
    LET new == DeleteUserRows(db, u)
        err == Violation(new)
    IN  /\ u \in db.users
        /\ db' = Commit(db, new)
        /\ last' = Op("delete_user", err, u)
        /\ UNCHANGED <<seq, objs, result>>

DeleteRole(r) ==
    LET new == DeleteRoleRows(db, r)
        err == Violation(new)
    IN  /\ r \in Ids(db.roles)
        /\ db' = Commit(db, new)
        /\ last' = Op("delete_role", err, r)
        /\ UNCHANGED <<seq, objs, result>>

----------------------------------------------------------------------------
(* VoteManager and the callers' Vote instances *)

\* Vote.objects.get(movie=m, user=u): the rows the lookup matches
VoteLookup(d, m, u) == {v \in d.votes : v.movie = m /\ v.user = u}

\* Vote(movie=m, user=u): an instance that is not saved
BlankVote(m, u) == [id |-> NULL, value |-> NULL, user |-> u, movie |-> m]

\* a get_or_create in place of the lookup
GetOrCreateVote(c, m, u) ==
    LET found == VoteLookup(db, m, u)
        row == [id |-> seq.vote, value |-> UP, user |-> u, movie |-> m]
    IN  /\ db' = IF found = {} THEN [db EXCEPT !.votes = @ \cup {row}] ELSE db
        /\ seq' = IF found = {} THEN [seq EXCEPT !.vote = @ + 1] ELSE seq
        /\ objs' = [objs EXCEPT ![c] =
                      IF found = {} THEN row ELSE CHOOSE v \in found : TRUE]
        /\ last' = Op("get_vote", "", NULL)
        /\ UNCHANGED result

\* caller c runs get_vote_or_unsaved_blank_vote(m, u); a lookup that matches
\* several rows raises MultipleObjectsReturned, which the manager lets through
GetVote(c, m, u) ==
    LET found == VoteLookup(db, m, u)
    IN  /\ db' = db
        /\ objs' = [objs EXCEPT ![c] =
                      IF found = {} THEN BlankVote(m, u)
                      ELSE IF Cardinality(found) = 1 THEN CHOOSE v \in found : TRUE
                      ELSE @]
        /\ last' = Op("get_vote",
                      IF Cardinality(found) > 1 THEN "multiple" ELSE "", NULL)
        /\ UNCHANGED <<seq, result>>

\* caller c sets the value of its instance (v = NULL: leaves it) and saves it
SaveVote(c, v) ==
    LET o == IF v = NULL THEN objs[c] ELSE [objs[c] EXCEPT !.value = v]
        new == SaveVoteRows(db, o, seq.vote)
        err == Violation(new)
        ok == err = ""
    IN  /\ objs[c] # NoObj
        /\ (ok /\ o.id = NULL) => RowsCreated < MaxRows
        /\ db' = Commit(db, new)
        /\ seq' = IF ok /\ o.id = NULL THEN [seq EXCEPT !.vote = @ + 1] ELSE seq
        /\ objs' = [objs EXCEPT ![c] =
                      IF ok /\ o.id = NULL THEN [o EXCEPT !.id = seq.vote] ELSE o]
        /\ last' = Op("save_vote", err, NULL)
        /\ UNCHANGED result

----------------------------------------------------------------------------
(* MovieManager *)

\* a nullable SQL value: <<>> is NULL, <<x>> is x
SqlNull == <<>>

RECURSIVE SumValues(_)
SumValues(rows) ==
    IF rows = {} THEN 0
    ELSE LET r == CHOOSE r \in rows : TRUE
         IN  r.value + SumValues(rows \ {r})

\* a join that leaves the movie out of its condition
JoinAllVotes(d, m) == d.votes

\* the Vote rows the reverse relation vote joins to movie m
JoinVotes(d, m) == {v \in d.votes : v.movie = m.id}

\* Sum('vote__value') over the rows joined to m: NULL when there are none
SumVoteValue(d, m) ==
    IF JoinVotes(d, m) = {} THEN SqlNull ELSE <<SumValues(JoinVotes(d, m))>>

\* str < str
RECURSIVE StrLess(_, _)
StrLess(a, b) ==
    IF b = <<>> THEN FALSE
    ELSE IF a = <<>> THEN TRUE
    ELSE IF Head(a) # Head(b) THEN Head(a) < Head(b)
    ELSE StrLess(Tail(a), Tail(b))

\* Movie.Meta.ordering: a sorts strictly before b
MetaOrderingBefore(a, b) ==
    \/ a.year > b.year
    \/ a.year = b.year /\ StrLess(a.title, b.title)

\* order_by('vote_sum')
VoteSumAscBefore(a, b) == a.vote_sum[1] < b.vote_sum[1]

\* order_by('-vote_sum')
VoteSumDescBefore(a, b) == a.vote_sum[1] > b.vote_sum[1]

\* a sorts strictly before b under the ordering named by fields
Before(fields, a, b) ==
    IF fields = "-vote_sum" THEN VoteSumDescBefore(a, b)
    ELSE MetaOrderingBefore(a, b)

\* ORDER BY: the rows, scanned in the order base, sorted by fields
Insert(s, x, fields) ==
    LET pos == Cardinality({i \in 1..Len(s) : ~Before(fields, x, s[i])})
    IN  SubSeq(s, 1, pos) \o <<x>> \o SubSeq(s, pos + 1, Len(s))

OrderBy(base, fields) ==
    LET ins[k \in 0..Len(base)] ==
            IF k = 0 THEN <<>> ELSE Insert(ins[k - 1], base[k], fields)
    IN  ins[Len(base)]

\* the orders a scan may deliver a set of rows in
Scans(rows) ==
    {s \in [1..Cardinality(rows) -> rows] :
        \A i, j \in 1..Cardinality(rows) : s[i] = s[j] => i = j}

\* Movie INNER JOIN Person
InnerJoinDirector(d, rows) ==
    {[m EXCEPT !.director = p] :
        <<m, p>> \in {x \in rows \X d.persons : x[1].director = x[2]}}

\* select_related('director'): Movie LEFT OUTER JOIN Person, the director
\* of a movie that has none stays null
SelectRelatedDirector(d, rows) ==
    {[m EXCEPT !.director = p] :
        <<m, p>> \in {x \in rows \X d.persons : x[1].director = x[2]}}
    \cup {[m EXCEPT !.director = NULL] :
            m \in {x \in rows : \A p \in d.persons : x.director # p}}

\* prefetch_related('writers', 'actors'): further queries, whose rows are
\* attached to the movies
PrefetchRelated(d, rows) ==
    {[id |-> m.id, title |-> m.title, year |-> m.year, director |-> m.director,
      actors |-> {r.person : r \in {x \in d.roles : x.movie = m.id}}] :
        m \in rows}

\* qs[:limit]
Limit(s, n) == SubSeq(s, 1, IF n < Len(s) THEN n ELSE Len(s))

\* Movie.objects.all()
All ==
    /\ \E base \in Scans(db.movies) :
          result' = OrderBy(base, "-year,title")
    /\ last' = Op("all", "", NULL)
    /\ UNCHANGED <<db, seq, objs>>

AllWithRelatedPersonsRows(d) ==
    PrefetchRelated(d, SelectRelatedDirector(d, d.movies))

AllWithRelatedPersons ==
    /\ \E base \in Scans(AllWithRelatedPersonsRows(db)) :
          result' = OrderBy(base, "-year,title")
    /\ last' = Op("all_with_related_persons", "", NULL)
    /\ UNCHANGED <<db, seq, objs>>

AllWithRelatedPersonsAndScoreRows(d) ==
    {[id |-> m.id, title |-> m.title, year |-> m.year, director |-> m.director,
      actors |-> m.actors, score |-> SumVoteValue(d, m)] :
        m \in AllWithRelatedPersonsRows(d)}

AllWithRelatedPersonsAndScore ==
    /\ \E base \in Scans(AllWithRelatedPersonsAndScoreRows(db)) :
          result' = OrderBy(base, "-year,title")
    /\ last' = Op("all_with_related_persons_and_score", "", NULL)
    /\ UNCHANGED <<db, seq, objs>>

\* an exclude that also drops a vote sum of 0
TopMoviesRowsNonZero(d) ==
    {r \in {[id |-> m.id, title |-> m.title, year |-> m.year,
             director |-> m.director, vote_sum |-> SumVoteValue(d, m)] :
                m \in d.movies} : r.vote_sum # SqlNull /\ r.vote_sum # <<0>>}

\* annotate(vote_sum=Sum('vote__value')).exclude(vote_sum=None)
TopMoviesRows(d) ==
    {r \in {[id |-> m.id, title |-> m.title, year |-> m.year,
             director |-> m.director, vote_sum |-> SumVoteValue(d, m)] :
                m \in d.movies} : r.vote_sum # SqlNull}

TopMovies(limit) ==
    /\ \E base \in Scans(TopMoviesRows(db)) :
          result' = Limit(OrderBy(base, "-vote_sum"), limit)
    /\ last' = Op("top_movies", "", limit)
    /\ UNCHANGED <<db, seq, objs>>

----------------------------------------------------------------------------
(* The tables under creates and deletes, from a catalogue of two movies
   (the first with a director), two persons and one user *)

InitSeq == [role |-> 1, vote |-> 1, image |-> 1]

\* the state with the tables d, before any operation
InitWith(d) ==
    /\ db = d
    /\ seq = InitSeq
    /\ objs = [c \in Callers |-> NoObj]
    /\ last = Op("init", "", NULL)
    /\ result = <<>>

FixtureDb ==
    [EmptyDb EXCEPT !.users = {1}, !.persons = {1, 2},
                    !.movies = {Movie(1, <<1>>, 2010, 1),
                                Movie(2, <<2>>, 2005, NULL)}]

InitDB == InitWith(FixtureDb)

NextDB ==
    \/ \E m \in Ids(FixtureDb.movies), p \in FixtureDb.persons, n \in RoleNames :
            CreateRole(m, p, n)
    \/ \E u \in FixtureDb.users, m \in Ids(FixtureDb.movies), v \in VoteValues :
            CreateVote(u, m, v)
    \/ \E m \in Ids(FixtureDb.movies), u \in FixtureDb.users : CreateImage(m, u)
    \/ \E m \in Ids(FixtureDb.movies) : DeleteMovie(m)
    \/ \E p \in FixtureDb.persons : DeletePerson(p)
    \/ \E r \in 1..MaxRows : DeleteRole(r)

SpecDB == InitDB /\ [][NextDB]_vars

----------------------------------------------------------------------------
(* Votes and images under deletes, from a catalogue of two movies (the
   first with a director), one person and two users *)

CascadeDb ==
    [EmptyDb EXCEPT !.users = {1, 2}, !.persons = {1},
                    !.movies = {Movie(1, <<1>>, 2010, 1),
                                Movie(2, <<2>>, 2005, NULL)}]

InitCascade == InitWith(CascadeDb)

NextCascade ==
    \/ \E u \in CascadeDb.users, m \in Ids(CascadeDb.movies), v \in VoteValues :
            CreateVote(u, m, v)
    \/ \E m \in Ids(CascadeDb.movies), u \in CascadeDb.users : CreateImage(m, u)
    \/ \E m \in Ids(CascadeDb.movies) : DeleteMovie(m)
    \/ \E p \in CascadeDb.persons : DeletePerson(p)
    \/ \E u \in CascadeDb.users : DeleteUser(u)

SpecCascade == InitCascade /\ [][NextCascade]_vars

----------------------------------------------------------------------------
(* Concurrent callers of the vote helper, on the catalogue with two users *)

NextVote ==
    \/ \E c \in Callers, m \in Ids(CascadeDb.movies), u \in CascadeDb.users :
            GetVote(c, m, u)
    \/ \E c \in Callers, v \in VoteValues \cup {NULL} : SaveVote(c, v)

SpecVote == InitCascade /\ [][NextVote]_vars

----------------------------------------------------------------------------
(* The score queries over catalogues of MaxMovies movies, each with up to
   MaxUsers votes *)

\* movie m of the catalogue gets ups[m] votes UP and downs[m] votes DOWN
VotesOf(ups, downs) ==
    {[id |-> (m - 1) * MaxUsers + u,
      value |-> IF u <= ups[m] THEN UP ELSE DOWN, user |-> u, movie |-> m] :
        <<m, u>> \in {x \in MovieIds \X UserIds : x[2] <= ups[x[1]] + downs[x[1]]}}

InitScore ==
    /\ \E ups \in [MovieIds -> 0..MaxUsers], downs \in [MovieIds -> 0..MaxUsers] :
          /\ \A m \in MovieIds : ups[m] + downs[m] <= MaxUsers
          /\ db = [EmptyDb EXCEPT
                      !.users = UserIds,
                      !.movies = {Movie(m, <<1>>, 2010, NULL) :
                                    m \in MovieIds},
                      !.votes = VotesOf(ups, downs)]
    /\ InitWith(db)

NextScore ==
    \/ AllWithRelatedPersonsAndScore
    \/ \E limit \in 0..MaxLimit : TopMovies(limit)

SpecScore == InitScore /\ [][NextScore]_vars

----------------------------------------------------------------------------
(* The ordered queries over catalogues of up to MaxMovies movies *)

InitOrder ==
    /\ \E n \in 0..MaxMovies :
         \E t \in [1..n -> Titles], y \in [1..n -> Years],
            p \in [1..n -> PersonIds \cup {NULL}] :
            db = [EmptyDb EXCEPT
                    !.persons = PersonIds,
                    !.movies = {Movie(m, t[m], y[m], p[m]) : m \in 1..n}]
    /\ InitWith(db)

NextOrder ==
    \/ All
    \/ AllWithRelatedPersons

SpecOrder == InitOrder /\ [][NextOrder]_vars

----------------------------------------------------------------------------
(* What the claims speak of, stated on the tables alone *)

VotesOn(m) == {v \in db.votes : v.movie = m}

\* the net votes of movie m: its votes UP less its votes DOWN
NetVotes(m) ==
    Cardinality({v \in VotesOn(m) : v.value = UP})
    - Cardinality({v \in VotesOn(m) : v.value = DOWN})

ResultIds == {result[i].id : i \in 1..Len(result)}

\* a <= b for strings: a is a prefix of b, or is less at the first difference
LexLeq(a, b) ==
    \/ Len(a) <= Len(b) /\ \A i \in 1..Len(a) : a[i] = b[i]
    \/ \E k \in 1..Len(a) :
          /\ k <= Len(b)
          /\ \A i \in 1..(k - 1) : a[i] = b[i]
          /\ a[k] < b[k]

----------------------------------------------------------------------------
(* C1: all_with_related_persons_and_score yields every movie once, with a
   score that is the sum of the values of the votes on that movie and of no
   other, and a null score (not 0) for a movie without votes. *)
C1_ScoreIsSumOfOwnVotes ==
    last.op = "all_with_related_persons_and_score" =>
        /\ Len(result) = Cardinality(db.movies)
        /\ \A m \in db.movies : \E i \in 1..Len(result) :
              /\ result[i].id = m.id
              /\ result[i].score =
                    IF VotesOn(m.id) = {} THEN SqlNull ELSE <<NetVotes(m.id)>>

\* the votes [+1, +1, -1] give the score 1, beside a movie without votes
C1_Witness ==
    /\ last.op = "all_with_related_persons_and_score"
    /\ \E i, j \in 1..Len(result) :
          /\ result[i].score = <<1>>
          /\ Cardinality(VotesOn(result[i].id)) = 3
          /\ result[j].score = SqlNull

(* C2: top_movies(limit) returns at most limit movies, each with at least
   one vote, in non-increasing order of vote sum, and no voted movie that is
   left out has a larger vote sum than one that is returned. *)
C2_TopMoviesIsTopOfRanking ==
    last.op = "top_movies" =>
        /\ Len(result) <= last.arg
        /\ \A i \in 1..Len(result) :
              /\ VotesOn(result[i].id) # {}
              /\ result[i].vote_sum = <<NetVotes(result[i].id)>>
        /\ \A i, j \in 1..Len(result) :
              i < j => NetVotes(result[i].id) >= NetVotes(result[j].id)
        /\ \A m \in Ids(db.movies) \ ResultIds : \A i \in 1..Len(result) :
              VotesOn(m) # {} => NetVotes(m) <= NetVotes(result[i].id)

\* top_movies(1) returns the movie of sum 3 and leaves out the one of sum 1
C2_Witness ==
    /\ last.op = "top_movies" /\ last.arg = 1
    /\ Len(result) = 1
    /\ NetVotes(result[1].id) = 3
    /\ \E m \in Ids(db.movies) \ ResultIds : VotesOn(m) # {} /\ NetVotes(m) = 1

(* C3, as claimed: every movie top_movies returns has a vote sum other
   than 0. *)
C3_Original_NoZeroNetVotes ==
    last.op = "top_movies" =>
        \A i \in 1..Len(result) : NetVotes(result[i].id) # 0

(* C3, amended: a movie without votes never appears in the result of
   top_movies; a movie whose votes cancel out has the sum 0, which is not
   null, and appears whenever the limit leaves room for it. *)
C3_OnlyUnvotedMoviesExcluded ==
    last.op = "top_movies" =>
        /\ \A i \in 1..Len(result) : VotesOn(result[i].id) # {}
        /\ Len(result) < last.arg =>
              \A m \in Ids(db.movies) :
                  (VotesOn(m) # {} /\ NetVotes(m) = 0) => m \in ResultIds

\* a movie with the votes +1 and -1 is returned, with the sum 0
C3_Witness ==
    /\ last.op = "top_movies"
    /\ \E i \in 1..Len(result) :
          /\ result[i].vote_sum = <<0>>
          /\ Cardinality(VotesOn(result[i].id)) = 2

(* C4: get_vote_or_unsaved_blank_vote never writes: whether or not a vote
   exists for the pair, the tables and the keys are the same after the call,
   and when none exists the candidate it returns has no key and no row. *)
C4_GetVoteNeverWrites ==
    [][\A c \in Callers, m \in Ids(CascadeDb.movies), u \in CascadeDb.users :
          (last'.op = "get_vote" /\ GetVote(c, m, u)) =>
              /\ db' = db
              /\ seq' = seq
              /\ VoteLookup(db, m, u) = {} =>
                    /\ objs'[c].id = NULL
                    /\ VoteLookup(db', m, u) = {}
                    /\ objs'[c] \notin db'.votes]_vars

\* a caller was handed a blank vote for a pair while other votes are stored
C4_Witness ==
    /\ last.op = "get_vote"
    /\ db.votes # {}
    /\ \E c \in Callers :
          /\ objs[c].id = NULL /\ objs[c].movie # NULL
          /\ VoteLookup(db, objs[c].movie, objs[c].user) = {}

(* C5: for a pair without a vote the helper returns an instance with no
   key, the given movie and user and no value; saving it with value +1
   stores one row for the pair, with a key; the helper then returns that
   row; and saving a returned row with another value updates the row, the
   number of rows staying the same. *)
C5_VoteRoundTrip ==
    [][\A c \in Callers :
          /\ \A m \in Ids(CascadeDb.movies), u \in CascadeDb.users :
                (last'.op = "get_vote" /\ GetVote(c, m, u)) =>
                    IF VoteLookup(db, m, u) = {}
                    THEN objs'[c] = [id |-> NULL, value |-> NULL,
                                     user |-> u, movie |-> m]
                    ELSE /\ objs'[c] \in db.votes
                         /\ objs'[c].id # NULL
                         /\ objs'[c].movie = m /\ objs'[c].user = u
          /\ (last'.op = "save_vote" /\ objs[c].id = NULL
                /\ VoteLookup(db, objs[c].movie, objs[c].user) = {}
                /\ SaveVote(c, UP)) =>
                    \E v \in db'.votes :
                        /\ VoteLookup(db', objs[c].movie, objs[c].user) = {v}
                        /\ v.value = UP /\ v.id # NULL
                        /\ objs'[c] = v
                        /\ db'.votes = db.votes \cup {v}
          /\ \A w \in VoteValues :
                (last'.op = "save_vote" /\ objs[c].id # NULL
                   /\ SaveVote(c, w)) =>
                    /\ Cardinality(db'.votes) = Cardinality(db.votes)
                    /\ Ids(db'.votes) = Ids(db.votes)
                    /\ [objs[c] EXCEPT !.value = w] \in db'.votes
                    /\ Cardinality(VoteLookup(db', objs[c].movie,
                                              objs[c].user)) = 1]_vars

\* a stored vote was changed by a save: a caller still holds the value +1
\* it stored under a key whose row now has the value -1
C5_Witness ==
    /\ last.op = "save_vote" /\ last.err = ""
    /\ \E c \in Callers : \E v \in db.votes :
          /\ objs[c].id = v.id
          /\ objs[c].value = UP /\ v.value = DOWN
          /\ VoteLookup(db, v.movie, v.user) = {v}

(* C6: under every interleaving of callers that look a vote up and save
   what they got, no pair of user and movie has two stored votes: an insert
   for a pair that has a row is rejected and leaves the tables as they
   were. *)
C6_OneVotePerPair ==
    /\ [](\A u \in CascadeDb.users, m \in Ids(CascadeDb.movies) :
            Cardinality({v \in db.votes : v.user = u /\ v.movie = m}) <= 1)
    /\ [][\A c \in Callers, w \in VoteValues :
            (last'.op = "save_vote" /\ objs[c].id = NULL
               /\ VoteLookup(db, objs[c].movie, objs[c].user) # {}
               /\ SaveVote(c, w)) =>
                  /\ db' = db
                  /\ last'.err = "unique"]_vars

\* two callers got a blank vote for the same pair; one insert was stored
\* and the other has just been rejected
C6_Witness ==
    /\ last.op = "save_vote" /\ last.err = "unique"
    /\ \E c1, c2 \in Callers :
          /\ objs[c1].id = NULL /\ objs[c1].value # NULL
          /\ objs[c2].id # NULL
          /\ objs[c2].movie = objs[c1].movie /\ objs[c2].user = objs[c1].user
          /\ Cardinality(VoteLookup(db, objs[c1].movie, objs[c1].user)) = 1

(* C7: saving a new Role whose movie, person and name are those of a
   stored Role is rejected, and so is saving a new Vote whose user and movie
   are those of a stored Vote; the rejected attempt leaves the tables as
   they were. A Role that differs from every stored Role in movie, person or
   name is stored. *)
C7_DuplicatesRejected ==
    [][/\ \A m \in Ids(FixtureDb.movies), p \in FixtureDb.persons,
            n \in RoleNames :
            (last'.op = "create_role" /\ CreateRole(m, p, n)) =>
                IF \E r \in db.roles :
                      r.movie = m /\ r.person = p /\ r.name = n
                THEN db' = db /\ last'.err = "unique"
                ELSE (m \in Ids(db.movies) /\ p \in db.persons) =>
                        /\ last'.err = ""
                        /\ \E r \in db'.roles \ db.roles :
                              /\ r.movie = m /\ r.person = p /\ r.name = n
                              /\ db' = [db EXCEPT !.roles = @ \cup {r}]
       /\ \A u \in FixtureDb.users, m \in Ids(FixtureDb.movies),
            v \in VoteValues :
            (last'.op = "create_vote" /\ CreateVote(u, m, v)
               /\ \E x \in db.votes : x.user = u /\ x.movie = m) =>
                  db' = db /\ last'.err = "unique"]_vars

\* a duplicate Role has just been rejected, while its person holds two
\* roles of different names in the movie, and a Vote is stored
C7_Witness ==
    /\ last.op = "create_role" /\ last.err = "unique"
    /\ db.votes # {}
    /\ \E a, b \in db.roles :
          a.movie = b.movie /\ a.person = b.person /\ a.name # b.name

(* C8: deleting a Movie or a Person that a stored Role references is
   rejected and leaves every table as it was; with no Role referencing it
   the delete goes through. Every stored Role references a stored Movie and
   a stored Person. *)
C8_RoleProtectsMovieAndPerson ==
    /\ [](\A r \in db.roles :
            /\ \E m \in db.movies : m.id = r.movie
            /\ r.person \in db.persons)
    /\ [][/\ \A m \in Ids(FixtureDb.movies) :
               (last'.op = "delete_movie" /\ DeleteMovie(m)) =>
                   IF \E r \in db.roles : r.movie = m
                   THEN db' = db /\ last'.err = "foreign_key"
                   ELSE last'.err = "" /\ m \notin Ids(db'.movies)
          /\ \A p \in FixtureDb.persons :
               (last'.op = "delete_person" /\ DeletePerson(p)) =>
                   IF \E r \in db.roles : r.person = p
                   THEN db' = db /\ last'.err = "foreign_key"
                   ELSE last'.err = "" /\ p \notin db'.persons]_vars

\* the delete of a movie with a role, a vote and an image has just been
\* rejected, and all three are still stored
C8_Witness ==
    /\ last.op = "delete_movie" /\ last.err = "foreign_key"
    /\ last.arg \in Ids(db.movies)
    /\ \E r \in db.roles : r.movie = last.arg
    /\ \E v \in db.votes : v.movie = last.arg
    /\ \E i \in db.images : i.movie = last.arg

(* C9: every stored Vote references a stored user and a stored movie and
   every stored MovieImage a stored movie: a delete of a user that goes
   through removes that user's votes, a delete of a movie that goes through
   removes that movie's votes and images, in the same step, and a delete of
   a person that goes through leaves the movies that person directed
   stored, without a director. *)
C9_CascadeAndSetNull ==
    /\ [](/\ \A v \in db.votes :
               v.user \in db.users /\ \E m \in db.movies : m.id = v.movie
          /\ \A i \in db.images : \E m \in db.movies : m.id = i.movie)
    /\ [][/\ \A u \in CascadeDb.users :
               (last'.op = "delete_user" /\ last'.err = "" /\ DeleteUser(u)) =>
                   /\ u \notin db'.users
                   /\ db'.votes = {v \in db.votes : v.user # u}
          /\ \A m \in Ids(CascadeDb.movies) :
               (last'.op = "delete_movie" /\ last'.err = "" /\ DeleteMovie(m)) =>
                   /\ m \notin Ids(db'.movies)
                   /\ db'.votes = {v \in db.votes : v.movie # m}
                   /\ db'.images = {i \in db.images : i.movie # m}
          /\ \A p \in CascadeDb.persons :
               (last'.op = "delete_person" /\ last'.err = "" /\ DeletePerson(p)) =>
                   /\ p \notin db'.persons
                   /\ Ids(db'.movies) = Ids(db.movies)
                   /\ \A m \in db.movies :
                         m.director = p =>
                            [m EXCEPT !.director = NULL] \in db'.movies
                   /\ db'.votes = db.votes /\ db'.images = db.images]_vars

\* the director of the first movie has just been deleted: the movie is
\* stored without a director, and so are the votes on it
C9_Witness ==
    /\ last.op = "delete_person" /\ last.err = ""
    /\ \E m \in db.movies :
          /\ m.director = NULL
          /\ \E f \in CascadeDb.movies : f.id = m.id /\ f.director = last.arg
          /\ VotesOn(m.id) # {}

(* C10: Movie.objects.all() and all_with_related_persons() list the stored
   movies, each once, by year descending and, within a year, by title
   ascending. *)
C10_MoviesByYearDescThenTitle ==
    last.op \in {"all", "all_with_related_persons"} =>
        /\ Len(result) = Cardinality(db.movies)
        /\ ResultIds = Ids(db.movies)
        /\ \A i \in 1..Len(result) : \E m \in db.movies :
              /\ m.id = result[i].id
              /\ m.title = result[i].title /\ m.year = result[i].year
        /\ \A i, j \in 1..Len(result) :
              i < j =>
                \/ result[i].year > result[j].year
                \/ /\ result[i].year = result[j].year
                   /\ LexLeq(result[i].title, result[j].title)

\* all_with_related_persons lists two movies of one year by title, against
\* the order of their keys, one of them without a director
C10_Witness ==
    /\ last.op = "all_with_related_persons"
    /\ Len(result) = 2
    /\ result[1].year = result[2].year
    /\ result[1].title # result[2].title
    /\ result[1].id > result[2].id
    /\ \E i \in 1..2 : result[i].director = NULL

====
